---- MODULE Spec2Model ----
(***************************************************************************)
(* json-store: a content-addressed JSON document store with two SQL       *)
(* backends (PostgresStore, MySQLStore) behind the JSONStore interface,   *)
(* and the gin handlers that call it.                                      *)
(*                                                                         *)
(* Part 1 models JSON bytes as token sequences, with encoding/json's       *)
(* Valid / Unmarshal / Marshal and the two NormalizeJSON / CalculateHash   *)
(* implementations of package utils.                                       *)
(* Part 2 models the json_documents table, transactions and the store     *)
(* and handler operations, one action per SQL statement.                   *)
(***************************************************************************)
EXTENDS Integers, Sequences, FiniteSets, TLC

VARIABLES
    hIn,        \* SpecHash: the pair of payloads handed to CalculateHash;
                \* the input of the other specifications that run one part alone
    hOut,       \* SpecHash: what the two CalculateHash implementations returned;
                \* the state of the part the other specifications run alone
    backend,    \* config database.type: "postgres" or "mysql"
    rows,       \* the committed rows of table json_documents
    now,        \* wall clock, in seconds
    call,       \* per request: where its handler goroutine is, and its locals
    tx,         \* per request: the *sql.Tx of its StoreJSONBatch
    resp        \* per request: the response written

hvars == <<hIn, hOut>>
svars == <<backend, rows, now, call, tx, resp>>
vars == <<hIn, hOut, backend, rows, now, call, tx, resp>>

(***************************************************************************)
(* Part 1: JSON bytes.  A payload is a sequence of tokens; every token is  *)
(* a run of bytes that encoding/json's scanner reads as one lexeme.        *)
(***************************************************************************)
LB == "{"
RB == "}"
LK == "["
RK == "]"
CM == ","
CL == ":"
WS == " "
N1 == "1"
N2 == "2"
SA == "\"a\""
SB == "\"b\""
NUL == "null"
BAD == "x"

NumTok == {N1, N2}
StrTok == {SA, SB}

\* len(jsonData): the number of bytes of a payload.
TokBytes(t) == CASE t \in {SA, SB} -> 3 [] t = NUL -> 4 [] OTHER -> 1

RECURSIVE ByteLen(_)
ByteLen(s) == IF s = <<>> THEN 0 ELSE TokBytes(Head(s)) + ByteLen(Tail(s))

\* The order sort.Strings gives the object keys in Marshal.
KeyOrder == <<SA, SB>>

ParseFail == [ok |-> FALSE, val |-> [t |-> "none"], pos |-> 0]

RECURSIVE SkipWS(_, _)
SkipWS(s, i) == IF i <= Len(s) /\ s[i] = WS THEN SkipWS(s, i + 1) ELSE i

RECURSIVE ParseValue(_, _), ParseElems(_, _, _), ParseMembers(_, _, _)
\* scanner: one JSON value starting at token i (no leading whitespace).
ParseValue(s, i) ==
    IF i > Len(s) THEN ParseFail
    ELSE IF s[i] \in NumTok
         THEN [ok |-> TRUE, val |-> [t |-> "num", v |-> s[i]], pos |-> i + 1]
    ELSE IF s[i] \in StrTok
         THEN [ok |-> TRUE, val |-> [t |-> "str", v |-> s[i]], pos |-> i + 1]
    ELSE IF s[i] = NUL
         THEN [ok |-> TRUE, val |-> [t |-> "null"], pos |-> i + 1]
    ELSE IF s[i] = LK
         THEN LET j == SkipWS(s, i + 1)
              IN  IF j <= Len(s) /\ s[j] = RK
                  THEN [ok |-> TRUE, val |-> [t |-> "arr", v |-> <<>>], pos |-> j + 1]
                  ELSE ParseElems(s, j, <<>>)
    ELSE IF s[i] = LB
         THEN LET j == SkipWS(s, i + 1)
              IN  IF j <= Len(s) /\ s[j] = RB
                  THEN [ok |-> TRUE, val |-> [t |-> "obj", v |-> <<>>], pos |-> j + 1]
                  ELSE ParseMembers(s, j, <<>>)
    ELSE ParseFail

\* array elements: value (ws , ws value)* ws ]
ParseElems(s, i, acc) ==
    LET r == ParseValue(s, i)
    IN  IF ~r.ok THEN ParseFail
        ELSE LET j == SkipWS(s, r.pos)
                 acc2 == Append(acc, r.val)
             IN  IF j > Len(s) THEN ParseFail
                 ELSE IF s[j] = CM THEN ParseElems(s, SkipWS(s, j + 1), acc2)
                 ELSE IF s[j] = RK
                      THEN [ok |-> TRUE, val |-> [t |-> "arr", v |-> acc2], pos |-> j + 1]
                 ELSE ParseFail

\* object members: string ws : ws value (ws , ws string ...)* ws } ;
\* a repeated key overwrites the earlier entry of the map.
ParseMembers(s, i, acc) ==
    IF i > Len(s) \/ s[i] \notin StrTok THEN ParseFail
    ELSE LET c == SkipWS(s, i + 1)
         IN  IF c > Len(s) \/ s[c] # CL THEN ParseFail
             ELSE LET r == ParseValue(s, SkipWS(s, c + 1))
                  IN  IF ~r.ok THEN ParseFail
                      ELSE LET j == SkipWS(s, r.pos)
                               acc2 == [k \in (DOMAIN acc) \cup {s[i]} |->
                                           IF k = s[i] THEN r.val ELSE acc[k]]
                           IN  IF j > Len(s) THEN ParseFail
                               ELSE IF s[j] = CM
                                    THEN ParseMembers(s, SkipWS(s, j + 1), acc2)
                               ELSE IF s[j] = RB
                                    THEN [ok |-> TRUE, val |-> [t |-> "obj", v |-> acc2],
                                          pos |-> j + 1]
                               ELSE ParseFail

\* One top-level value surrounded by optional whitespace, and nothing else.
Decode(s) ==
    LET r == ParseValue(s, SkipWS(s, 1))
    IN  IF r.ok /\ SkipWS(s, r.pos) = Len(s) + 1 THEN r ELSE ParseFail

\* json.Valid
Valid(s) == Decode(s).ok

RECURSIVE Marshal(_), MarshalElems(_, _), MarshalMembers(_, _, _)
\* json.Marshal of a decoded value: no whitespace, object keys sorted.
Marshal(val) ==
    CASE val.t = "num" -> <<val.v>>
      [] val.t = "str" -> <<val.v>>
      [] val.t = "null" -> <<NUL>>
      [] val.t = "arr" -> <<LK>> \o MarshalElems(val.v, 1) \o <<RK>>
      [] val.t = "obj" -> <<LB>> \o MarshalMembers(val.v, 1, TRUE) \o <<RB>>

MarshalElems(a, i) ==
    IF i > Len(a) THEN <<>>
    ELSE (IF i > 1 THEN <<CM>> ELSE <<>>) \o Marshal(a[i]) \o MarshalElems(a, i + 1)

MarshalMembers(m, k, first) ==
    IF k > Len(KeyOrder) THEN <<>>
    ELSE IF KeyOrder[k] \in DOMAIN m
         THEN (IF first THEN <<>> ELSE <<CM>>) \o <<KeyOrder[k], CL>>
              \o Marshal(m[KeyOrder[k]]) \o MarshalMembers(m, k + 1, FALSE)
         ELSE MarshalMembers(m, k + 1, first)

\* sha256.Sum256 + hex.EncodeToString: collision-free on the modelled inputs,
\* so a digest is identified by the bytes it was computed from.
Sha256Hex(bytes) == [sha256 |-> bytes]

\* utils.NormalizeJSON decoding into interface{}: any valid JSON value.
NormalizeJSON(data) ==
    LET r == Decode(data)
    IN  IF r.ok THEN [err |-> FALSE, out |-> Marshal(r.val)]
        ELSE [err |-> TRUE, out |-> <<>>]

\* utils.CalculateHash over NormalizeJSON: when normalising fails the raw
\* bytes are hashed, and the returned error is always nil.
CalculateHash(data) ==
    LET n == NormalizeJSON(data)
        normalized == IF n.err THEN data ELSE n.out
    IN  [err |-> FALSE, hash |-> Sha256Hex(normalized)]

\* utils.NormalizeJSON decoding into map[string]interface{}: Unmarshal
\* reports a type error for a top-level array, string or number; null
\* leaves the map nil, which Marshal prints as null.
NormalizeJSONMap(data) ==
    LET r == Decode(data)
    IN  IF r.ok /\ r.val.t \in {"obj", "null"}
        THEN [err |-> FALSE, out |-> Marshal(r.val)]
        ELSE [err |-> TRUE, out |-> <<>>]

\* utils.CalculateHash over the map-typed NormalizeJSON.
CalculateHashMap(data) ==
    LET n == NormalizeJSONMap(data)
        normalized == IF n.err THEN data ELSE n.out
    IN  [err |-> FALSE, hash |-> Sha256Hex(normalized)]

\* The canonical byte form of a document: decoded and re-encoded with sorted
\* keys and no insignificant whitespace.
Canonical(jsonData) ==
    IF Valid(jsonData) THEN Marshal(Decode(jsonData).val) ELSE jsonData

\* database.calculateHash (called by both stores on validated bytes): the
\* fingerprint of the canonical byte form of the document.
calculateHash(jsonData) == Sha256Hex(Canonical(jsonData))

(***************************************************************************)
(* Part 2: the store.  Bounds of the model.                                *)
(***************************************************************************)
NumRequests == 2
MaxBatch == 2
MaxClock == 1

\* Mutant: the limit is ten times what it is.
BatchLimit_Raised == 100 * 10

\* len(jsonDataList) > 100, validate:"max=100"
BatchLimit == 100

Requests == 1..NumRequests

PA == <<LB, SA, CL, N1, RB>>
PA2 == <<LB, WS, SA, CL, N1, RB>>
PB == <<LK, N1, RK>>
PX == <<LB, BAD>>
PN == <<NUL>>
PE == <<>>

\* The documents of the batch requests.
StorePayloads == {PA, PA2, PB, PX}

\* The documents of the single-store requests: those, the JSON literal null
\* and the empty byte sequence.
SinglePayloads == StorePayloads \cup {PN, PE}

RECURSIVE SeqsUpTo(_, _)
SeqsUpTo(S, n) ==
    IF n = 0 THEN {<<>>}
    ELSE LET shorter == SeqsUpTo(S, n - 1)
         IN  shorter \cup {Append(q, x) : q \in {r \in shorter : Len(r) = n - 1}, x \in S}

Batches == SeqsUpTo(StorePayloads, MaxBatch)

(***************************************************************************)
(* The table and the SQL statements run against it.                        *)
(***************************************************************************)
NoDoc == [id |-> 0]
EmptyMeta == "{}"

\* json_data JSONB NOT NULL / JSON NOT NULL: the column takes well-formed
\* JSON only, and keeps the parsed document, not the bytes sent.
JsonColumnAccepts(jsonData) == Valid(jsonData)

JsonColumn(jsonData) == Canonical(jsonData)

\* INSERT INTO json_documents (id, content_hash, json_data, size): metadata,
\* created_at and updated_at take their column defaults.
NewRow(id, hash, jsonData, ts) ==
    [id |-> id, content_hash |-> hash, json_data |-> JsonColumn(jsonData),
     size |-> ByteLen(jsonData), metadata |-> EmptyMeta,
     created_at |-> ts, updated_at |-> ts]

\* SELECT ... WHERE content_hash = $1 LIMIT 1
SelectByHash(tbl, hash) ==
    IF \E r \in tbl : r.content_hash = hash
    THEN CHOOSE r \in tbl : r.content_hash = hash
    ELSE NoDoc

\* SELECT ... WHERE id = $1
SelectByID(tbl, id) ==
    IF \E r \in tbl : r.id = id THEN CHOOSE r \in tbl : r.id = id ELSE NoDoc

\* What a caller passes for a document that does not exist and is no UUID
\* ("nonexistent"); the identifiers uuid.New() makes are positive.
NonUUID == 0 - 1

\* PostgreSQL: id UUID compares with a well-formed UUID only, any other text
\* is refused with "invalid input syntax for type uuid"; MySQL: id VARCHAR(36).
IdAccepted(be, id) == be = "mysql" \/ id # NonUUID

\* Scan(..., &doc.Metadata) in PostgresStore: doc.Metadata is a map[string]any
\* and database/sql has no conversion from the JSONB bytes of the column to
\* it, so Scan returns an error for every row; MySQLStore scans the column
\* into a sql.NullString and decodes it itself.
ScanFails(be, r) == be = "postgres" /\ r.metadata # "NULL"

\* GetJSONByID: sql.ErrNoRows is the not-found error, every other error of
\* the query or of Scan is wrapped as a failure to get.
GetJSONByID(be, tbl, id) ==
    IF ~IdAccepted(be, id) THEN [err |-> "failed to get JSON", doc |-> NoDoc]
    ELSE LET r == SelectByID(tbl, id)
         IN  IF r = NoDoc THEN [err |-> "document not found with id", doc |-> NoDoc]
             ELSE IF ScanFails(be, r) THEN [err |-> "failed to get JSON", doc |-> NoDoc]
             ELSE [err |-> "none", doc |-> r]

\* GetJSONByHash, likewise.
GetJSONByHash(be, tbl, hash) ==
    LET r == SelectByHash(tbl, hash)
    IN  IF r = NoDoc THEN [err |-> "document not found with hash", doc |-> NoDoc]
        ELSE IF ScanFails(be, r) THEN [err |-> "failed to get JSON by hash", doc |-> NoDoc]
        ELSE [err |-> "none", doc |-> r]

\* Mutant: the column is declared without UNIQUE.
UniqueContentHash_NoIndex(tbl, hash) == FALSE

\* content_hash VARCHAR(64) UNIQUE NOT NULL: the index refuses a second row
\* with a content_hash the table already holds.
UniqueContentHash(tbl, hash) == \E r \in tbl : r.content_hash = hash

\* Rows other open transactions have inserted and not yet committed: the
\* unique index makes an INSERT of the same content_hash wait for them.
OthersUncommitted(c) == UNION {tx[d].ins : d \in Requests \ {c}}

InsertWaits(c, hash) == UniqueContentHash(OthersUncommitted(c), hash)

\* uuid.New(): an identifier no row and no caller holds.
UsedIds ==
    {r.id : r \in rows} \cup {r.id : r \in UNION {tx[d].ins : d \in Requests}}
    \cup {call[d].id : d \in Requests}

FreshId ==
    CHOOSE n \in 1..(Cardinality(UsedIds) + 1) :
        n \notin UsedIds /\ \A m \in 1..(n - 1) : m \in UsedIds

\* The locals of a request; failed (the positions the loop left without a
\* result), insfail (the positions whose INSERT returned an error), pre
\* (the fingerprints stored when the batch began) and wrote (a statement of
\* the StoreJSON call has changed the table) are kept for stating the
\* properties only.
IdleCall ==
    [pc |-> "new", op |-> "none", data |-> <<>>, i |-> 0, id |-> 0,
     existingID |-> 0, results |-> <<>>, failed |-> {}, insfail |-> {},
     pre |-> {}, wrote |-> FALSE]

DoneCall == [IdleCall EXCEPT !.pc = "done"]

\* net/http serves every request on a goroutine of its own; the requests
\* are numbered in the order they arrive.
Arrives(c) ==
    /\ call[c].pc = "new"
    /\ \A d \in 1..(c - 1) : call[d].pc # "new"

NoTx == [open |-> FALSE, failed |-> FALSE, ins |-> {}, snapped |-> FALSE,
         snap |-> {}, start |-> 0]

NoResp == [kind |-> "none"]

\* time.Since(doc.CreatedAt) < time.Second
IsNew(doc) == now - doc.created_at < 1

\* JSONHandler.StoreJSON after h.store.StoreJSON returned (err, doc);
\* created (the call inserted the row it returns) is kept for stating the
\* properties only.
StoreResponse(jsonData, err, doc, created) ==
    [kind |-> "store", data |-> jsonData, err |-> err, doc |-> doc,
     created |-> created,
     status |-> IF err = "none" THEN 200 ELSE 500,
     body |-> IF err = "none"
              THEN [id |-> doc.id, is_new |-> IsNew(doc), created_at |-> doc.created_at]
              ELSE [error |-> "STORAGE_ERROR"]]

TypeOK ==
    /\ backend \in {"postgres", "mysql"}
    /\ now \in 0..MaxClock
    /\ \A c \in Requests : call[c].pc \in
         {"new", "done", "insert", "gethash", "getid", "b_select", "b_getexisting",
          "b_insert", "b_getinserted", "b_commit"}

Init ==
    /\ hIn = <<>>
    /\ hOut = <<>>
    /\ backend \in {"postgres", "mysql"}
    /\ rows = {}
    /\ now = 0
    /\ call = [c \in Requests |-> IdleCall]
    /\ tx = [c \in Requests |-> NoTx]
    /\ resp = [c \in Requests |-> NoResp]

\* The wall clock advances (it is read only while a request is served).
Tick ==
    /\ now < MaxClock
    /\ \E c \in Requests : call[c].pc \notin {"new", "done"}
    /\ now' = now + 1
    /\ UNCHANGED <<hIn, hOut, backend, rows, call, tx, resp>>

\* StoreJSON returns to JSONHandler.StoreJSON, which answers the request.
Return(c, err, doc) ==
    /\ resp' = [resp EXCEPT ![c] = StoreResponse(call[c].data, err, doc,
                                                  err = "none" /\ doc.id = call[c].id)]
    /\ call' = [call EXCEPT ![c] = DoneCall]

\* Mutant: only an empty body is refused.
InvalidJSON_EmptyOnly(jsonData) == jsonData = <<>>

\* if !json.Valid(jsonData) { return nil, fmt.Errorf("invalid JSON data") }
InvalidJSON(jsonData) == ~Valid(jsonData)

\* POST /json: JSONHandler.StoreJSON calls store.StoreJSON, which validates,
\* fingerprints and probes GetJSONByHash (the same code in both stores).
StoreJSON(c, jsonData) ==
    /\ Arrives(c)
    /\ IF InvalidJSON(jsonData)
       THEN /\ resp' = [resp EXCEPT ![c] = StoreResponse(jsonData, "invalid JSON data", NoDoc, FALSE)]
            /\ call' = [call EXCEPT ![c] = DoneCall]
       ELSE LET existing == GetJSONByHash(backend, rows, calculateHash(jsonData))
            IN  IF existing.err = "none"
                THEN /\ resp' = [resp EXCEPT ![c] = StoreResponse(jsonData, "none", existing.doc, FALSE)]
                     /\ call' = [call EXCEPT ![c] = DoneCall]
                ELSE /\ call' = [call EXCEPT ![c] =
                            [IdleCall EXCEPT !.pc = "insert", !.op = "store",
                                             !.data = jsonData, !.id = FreshId]]
                     /\ UNCHANGED resp
    /\ UNCHANGED <<hIn, hOut, backend, rows, now, tx>>

\* PostgresStore.StoreJSON: INSERT ... RETURNING, in autocommit.
PostgresInsert(c) ==
    /\ backend = "postgres"
    /\ call[c].pc = "insert"
    /\ LET hash == calculateHash(call[c].data)
           doc == NewRow(call[c].id, hash, call[c].data, now)
       IN  /\ ~InsertWaits(c, hash)
           /\ IF ~JsonColumnAccepts(call[c].data) \/ UniqueContentHash(rows, hash)
              THEN /\ Return(c, "failed to store JSON", NoDoc)
                   /\ UNCHANGED rows
              ELSE /\ rows' = rows \cup {doc}
                   /\ Return(c, "none", doc)
    /\ UNCHANGED <<hIn, hOut, backend, now, tx>>

\* Mutant: the upsert replaces the row's timestamps (REPLACE INTO).
Touch_Recreate(old, ts) == [old EXCEPT !.updated_at = ts, !.created_at = ts]

\* ON DUPLICATE KEY UPDATE updated_at = CURRENT_TIMESTAMP
Touch(old, ts) == [old EXCEPT !.updated_at = ts]

\* MySQLStore.StoreJSON: INSERT ... ON DUPLICATE KEY UPDATE updated_at =
\* CURRENT_TIMESTAMP, then the branch on RowsAffected (1 for an insert, 2
\* for a changed row, 0 for a row set to the values it had).
MySQLInsert(c) ==
    /\ backend = "mysql"
    /\ call[c].pc = "insert"
    /\ LET hash == calculateHash(call[c].data)
           old == SelectByHash(rows, hash)
           rowsAffected == IF old = NoDoc THEN 1
                           ELSE IF old.updated_at = now THEN 0 ELSE 2
       IN  /\ ~InsertWaits(c, hash)
           /\ IF ~JsonColumnAccepts(call[c].data)
              THEN /\ Return(c, "failed to store JSON", NoDoc)
                   /\ UNCHANGED rows
              ELSE /\ rows' = IF old = NoDoc
                              THEN rows \cup {NewRow(call[c].id, hash, call[c].data, now)}
                              ELSE (rows \ {old}) \cup {Touch(old, now)}
                   /\ call' = [call EXCEPT ![c].pc =
                                  IF rowsAffected = 0 THEN "gethash" ELSE "getid",
                                            ![c].wrote = (rowsAffected # 0)]
                   /\ UNCHANGED resp
    /\ UNCHANGED <<hIn, hOut, backend, now, tx>>

\* MySQLStore.StoreJSON, rowsAffected == 0: return s.GetJSONByHash(ctx, hash).
MySQLGetByHash(c) ==
    /\ backend = "mysql"
    /\ call[c].pc = "gethash"
    /\ LET got == GetJSONByHash(backend, rows, calculateHash(call[c].data))
       IN  Return(c, got.err, got.doc)
    /\ UNCHANGED <<hIn, hOut, backend, rows, now, tx>>

\* MySQLStore.StoreJSON, otherwise: doc, err := s.GetJSONByID(ctx, id).
MySQLGetByID(c) ==
    /\ backend = "mysql"
    /\ call[c].pc = "getid"
    /\ LET got == GetJSONByID(backend, rows, call[c].id)
       IN  Return(c, got.err, got.doc)
    /\ UNCHANGED <<hIn, hOut, backend, rows, now, tx>>

\* ctx (c.Request.Context()) is done before the next statement of StoreJSON
\* is sent: the client went away or a deadline passed.  QueryRowContext,
\* ExecContext and the GetJSONBy... of MySQLStore return ctx.Err(), which
\* StoreJSON returns wrapped; what earlier statements wrote stays written.
ContextDone(c) ==
    /\ call[c].op = "store"
    /\ call[c].pc \in {"insert", "gethash", "getid"}
    /\ Return(c, IF call[c].pc = "insert"
                 THEN "failed to store JSON: context deadline exceeded"
                 ELSE "failed to get JSON: context deadline exceeded", NoDoc)
    /\ UNCHANGED <<hIn, hOut, backend, rows, now, tx>>

(***************************************************************************)
(* POST /json/batch: JSONHandler.StoreJSONBatch and store.StoreJSONBatch.  *)
(***************************************************************************)
\* Positions of the malformed documents of a request (1-based).
InvalidAt(list) == {i \in 1..Len(list) : ~Valid(list[i])}

Min(S) == CHOOSE x \in S : \A y \in S : x <= y

RECURSIVE Ascending(_)
\* The elements of a set of positions, in increasing order (a range loop).
Ascending(S) == IF S = {} THEN <<>> ELSE <<Min(S)>> \o Ascending(S \ {Min(S)})

BatchRejected(list, error, index) ==
    [kind |-> "batch", data |-> list, err |-> error, results |-> <<>>,
     failed |-> {}, insfail |-> {}, pre |-> {}, inserted |-> {}, undone |-> {},
     status |-> 400,
     body |-> [error |-> error, index |-> index]]

\* The store returned (nil, err): no result list reaches the handler;
\* undone (the ids of the rows the transaction had inserted) is kept for
\* stating the properties only.
BatchFailed(cl, err, undone) ==
    [kind |-> "batch", data |-> cl.data, err |-> err,
     results |-> <<>>, failed |-> cl.failed, insfail |-> cl.insfail, pre |-> cl.pre,
     inserted |-> {}, undone |-> undone, status |-> 500,
     body |-> [error |-> "BATCH_STORAGE_ERROR"]]

\* JSONHandler.StoreJSONBatch building the 200 response from the results.
BatchStored(cl, inserted) ==
    LET total == Len(cl.data)
        success == Len(cl.results)
        failure == total - success
    IN  [kind |-> "batch", data |-> cl.data, err |-> "none", results |-> cl.results,
         failed |-> cl.failed, insfail |-> cl.insfail, pre |-> cl.pre,
         inserted |-> inserted, undone |-> {}, status |-> 200,
         body |-> [total_count |-> total,
                   success_count |-> success,
                   failure_count |-> failure,
                   results |-> [k \in 1..success |->
                                   [id |-> cl.results[k].id,
                                    is_new |-> IsNew(cl.results[k]),
                                    created_at |-> cl.results[k].created_at]],
                   failures |-> IF failure > 0 THEN <<[index |-> success]>> ELSE <<>>]]

\* The handler validates the request and every document, then the store
\* checks the length and begins the transaction; s.db.BeginTx may return an
\* error (no connection, ctx done).
StoreJSONBatch(c, list) ==
    /\ Arrives(c)
    /\ IF Len(list) < 1 \/ Len(list) > BatchLimit
       THEN /\ resp' = [resp EXCEPT ![c] = BatchRejected(list, "VALIDATION_ERROR", 0)]
            /\ call' = [call EXCEPT ![c] = DoneCall]
            /\ UNCHANGED tx
       ELSE IF InvalidAt(list) # {}
       THEN /\ resp' = [resp EXCEPT ![c] =
                           BatchRejected(list, "INVALID_JSON", Min(InvalidAt(list)) - 1)]
            /\ call' = [call EXCEPT ![c] = DoneCall]
            /\ UNCHANGED tx
       ELSE \/ /\ call' = [call EXCEPT ![c] =
                      [IdleCall EXCEPT !.pc = "b_select", !.op = "batch", !.data = list,
                                       !.i = 1, !.pre = {r.content_hash : r \in rows}]]
               /\ tx' = [tx EXCEPT ![c] = [NoTx EXCEPT !.open = TRUE, !.start = now]]
               /\ UNCHANGED resp
            \/ /\ resp' = [resp EXCEPT ![c] =
                              BatchFailed([IdleCall EXCEPT !.data = list],
                                          "failed to begin transaction: bad connection", {})]
               /\ call' = [call EXCEPT ![c] = DoneCall]
               /\ UNCHANGED tx
    /\ UNCHANGED <<hIn, hOut, backend, rows, now>>

\* The loop moves to the next document, or to tx.Commit after the last.
Advance(cl) ==
    IF cl.i < Len(cl.data)
    THEN [cl EXCEPT !.i = @ + 1, !.pc = "b_select", !.id = 0, !.existingID = 0]
    ELSE [cl EXCEPT !.pc = "b_commit", !.id = 0, !.existingID = 0]

\* results = append(results, doc)
Appended(cl, doc) == Advance([cl EXCEPT !.results = Append(@, doc)])

\* continue, without a result for this document
Skipped(cl) == Advance([cl EXCEPT !.failed = @ \cup {cl.i}])

\* continue, after the INSERT of this document returned an error
InsertFailed(cl) == Skipped([cl EXCEPT !.insfail = @ \cup {cl.i}])

\* What a statement of the transaction reads: PostgreSQL (READ COMMITTED)
\* the rows committed when the statement runs, InnoDB (REPEATABLE READ) the
\* rows committed at the transaction's first read; both with its own rows.
TxVisible(c) ==
    (IF backend = "mysql" /\ tx[c].snapped THEN tx[c].snap ELSE rows) \cup tx[c].ins

\* tx.QueryRowContext("SELECT id FROM json_documents WHERE content_hash = ..")
BatchSelect(c) ==
    /\ call[c].pc = "b_select"
    /\ LET cl == call[c]
           jsonData == cl.data[cl.i]
           withId == [cl EXCEPT !.id = IF backend = "postgres" THEN FreshId ELSE 0]
       IN  IF ~Valid(jsonData)
           THEN /\ call' = [call EXCEPT ![c] = Skipped(cl)]
                /\ UNCHANGED tx
           ELSE IF tx[c].failed
           THEN /\ call' = [call EXCEPT ![c] = [withId EXCEPT !.pc = "b_insert"]]
                /\ UNCHANGED tx
           ELSE LET found == SelectByHash(TxVisible(c), calculateHash(jsonData))
                IN  /\ call' = [call EXCEPT ![c] =
                           IF found # NoDoc
                           THEN [withId EXCEPT !.pc = "b_getexisting",
                                               !.existingID = found.id]
                           ELSE [withId EXCEPT !.pc = "b_insert"]]
                    /\ tx' = IF backend = "mysql" /\ ~tx[c].snapped
                             THEN [tx EXCEPT ![c].snapped = TRUE, ![c].snap = rows]
                             ELSE tx
    /\ UNCHANGED <<hIn, hOut, backend, rows, now, resp>>

\* doc, err := s.GetJSONByID(ctx, existingID): a query on s.db, outside the
\* transaction, which reads committed rows only.
BatchGetExisting(c) ==
    /\ call[c].pc = "b_getexisting"
    /\ LET got == GetJSONByID(backend, rows, call[c].existingID)
       IN  call' = [call EXCEPT ![c] =
                       IF got.err = "none" THEN Appended(call[c], got.doc)
                       ELSE [call[c] EXCEPT !.pc = "b_insert"]]
    /\ UNCHANGED <<hIn, hOut, backend, rows, now, tx, resp>>

\* PostgresStore.StoreJSONBatch: tx INSERT ... RETURNING.  A statement that
\* fails leaves the transaction aborted: every later statement fails too.
\* CURRENT_TIMESTAMP is the transaction's start time.
PostgresBatchInsert(c) ==
    /\ backend = "postgres"
    /\ call[c].pc = "b_insert"
    /\ LET cl == call[c]
           hash == calculateHash(cl.data[cl.i])
           doc == NewRow(cl.id, hash, cl.data[cl.i], tx[c].start)
       IN  IF tx[c].failed
           THEN /\ call' = [call EXCEPT ![c] = InsertFailed(cl)]
                /\ UNCHANGED tx
           ELSE /\ ~InsertWaits(c, hash)
                /\ IF \/ ~JsonColumnAccepts(cl.data[cl.i])
                      \/ UniqueContentHash(rows \cup tx[c].ins, hash)
                   THEN /\ call' = [call EXCEPT ![c] = InsertFailed(cl)]
                        /\ tx' = [tx EXCEPT ![c].failed = TRUE]
                   ELSE /\ call' = [call EXCEPT ![c] = Appended(cl, doc)]
                        /\ tx' = [tx EXCEPT ![c].ins = @ \cup {doc}]
    /\ UNCHANGED <<hIn, hOut, backend, rows, now, resp>>

\* MySQLStore.StoreJSONBatch: id := uuid.New(); tx INSERT.  A duplicate-key
\* error rolls back the statement only.
MySQLBatchInsert(c) ==
    /\ backend = "mysql"
    /\ call[c].pc = "b_insert"
    /\ LET cl == call[c]
           hash == calculateHash(cl.data[cl.i])
           id == FreshId
       IN  /\ ~InsertWaits(c, hash)
           /\ IF \/ ~JsonColumnAccepts(cl.data[cl.i])
                 \/ UniqueContentHash(rows \cup tx[c].ins, hash)
              THEN /\ call' = [call EXCEPT ![c] = InsertFailed(cl)]
                   /\ UNCHANGED tx
              ELSE /\ call' = [call EXCEPT ![c].pc = "b_getinserted", ![c].id = id]
                   /\ tx' = [tx EXCEPT ![c].ins = @ \cup {NewRow(id, hash, cl.data[cl.i], now)}]
    /\ UNCHANGED <<hIn, hOut, backend, rows, now, resp>>

\* MySQLStore.StoreJSONBatch: doc, err := s.GetJSONByID(ctx, id), again a
\* query on s.db outside the transaction.
MySQLBatchGetInserted(c) ==
    /\ backend = "mysql"
    /\ call[c].pc = "b_getinserted"
    /\ LET got == GetJSONByID(backend, rows, call[c].id)
       IN  call' = [call EXCEPT ![c] =
                       IF got.err = "none" THEN Appended(call[c], got.doc)
                       ELSE Skipped(call[c])]
    /\ UNCHANGED <<hIn, hOut, backend, rows, now, tx, resp>>

\* Mutant: the rows were inserted on s.db, outside the transaction, and
\* outlive its rollback.
RolledBack_Autocommit(tbl, ins) == tbl \cup ins

\* defer tx.Rollback(): the table after a transaction that did not commit.
RolledBack(tbl, ins) == tbl

\* tx.Commit(): lib/pq rolls an aborted transaction back and returns
\* ErrInFailedTransaction, and a commit may fail in the backend (connection
\* lost, ctx done); otherwise the inserted rows become visible and the
\* handler answers with the results.
BatchCommit(c) ==
    /\ call[c].pc = "b_commit"
    /\ \E committed \in {~tx[c].failed, FALSE} :
          IF ~committed
          THEN /\ resp' = [resp EXCEPT ![c] =
                              BatchFailed(call[c],
                                          IF tx[c].failed
                                          THEN "failed to commit transaction: in failed transaction"
                                          ELSE "failed to commit transaction: bad connection",
                                          {r.id : r \in tx[c].ins})]
               /\ rows' = RolledBack(rows, tx[c].ins)
          ELSE /\ rows' = rows \cup tx[c].ins
               /\ resp' = [resp EXCEPT ![c] =
                              BatchStored(call[c], {r.id : r \in tx[c].ins})]
    /\ call' = [call EXCEPT ![c] = DoneCall]
    /\ tx' = [tx EXCEPT ![c] = NoTx]
    /\ UNCHANGED <<hIn, hOut, backend, now>>

\* An INSERT that waits for another transaction's row gives up with an
\* error (lock wait timeout, deadlock victim, deadline of ctx).
LockWaitFail(c) ==
    /\ call[c].pc \in {"insert", "b_insert"}
    /\ ~tx[c].failed
    /\ InsertWaits(c, calculateHash(IF call[c].pc = "insert" THEN call[c].data
                                    ELSE call[c].data[call[c].i]))
    /\ IF call[c].pc = "insert"
       THEN /\ Return(c, "failed to store JSON", NoDoc)
            /\ UNCHANGED tx
       ELSE /\ call' = [call EXCEPT ![c] = InsertFailed(call[c])]
            /\ tx' = [tx EXCEPT ![c].failed = (backend = "postgres")]
            /\ UNCHANGED resp
    /\ UNCHANGED <<hIn, hOut, backend, rows, now>>

(***************************************************************************)
(* GET /json/:id, GET /json/hash, the batch retrieval, and Migrate.        *)
(***************************************************************************)
\* Mutant: the query consumes the rows it reads (DELETE ... RETURNING).
Selected_Consumed(tbl) == {}

\* The table after the SELECT statements of a retrieval or of GetStats.
Selected(tbl) == tbl

\* c.Param("id") of a request: the empty string (0), the first identifiers
\* uuid.New() gives out, or a string that is no UUID.
EmptyId == 0
GetIds == {EmptyId, 1, 2, NonUUID}

\* c.Query("hash"): the empty string, a fingerprint of a payload, or 64 zeros.
EmptyHash == [absent |-> TRUE]
ZeroHash == Sha256Hex(<<"0">>)
GetHashes == {EmptyHash, ZeroHash} \cup {calculateHash(p) : p \in {PA, PB}}

\* The ids of a batch retrieval.
BatchIds == {1, 2, NonUUID}
IdLists == SeqsUpTo(BatchIds, MaxBatch)

\* JSONHandler.GetJSON and JSONHandler.GetJSONByHash: every error of the
\* store is answered 404 NOT_FOUND.
GetResponse(kind, key, got) ==
    [kind |-> kind, key |-> key, err |-> got.err, doc |-> got.doc,
     status |-> IF got.err = "none" THEN 200 ELSE 404,
     body |-> IF got.err = "none" THEN got.doc ELSE [error |-> "NOT_FOUND"]]

GetRejected(kind, key, error) ==
    [kind |-> kind, key |-> key, err |-> error, doc |-> NoDoc, status |-> 400,
     body |-> [error |-> error]]

\* GET /json/:id
GetJSON(c, id) ==
    /\ Arrives(c)
    /\ resp' = [resp EXCEPT ![c] =
                   IF id = EmptyId THEN GetRejected("get", id, "MISSING_ID")
                   ELSE GetResponse("get", id, GetJSONByID(backend, rows, id))]
    /\ call' = [call EXCEPT ![c] = DoneCall]
    /\ rows' = Selected(rows)
    /\ UNCHANGED <<hIn, hOut, backend, now, tx>>

\* GET /json/hash?hash=
HandleGetJSONByHash(c, hash) ==
    /\ Arrives(c)
    /\ resp' = [resp EXCEPT ![c] =
                   IF hash = EmptyHash THEN GetRejected("hash", hash, "MISSING_HASH")
                   ELSE GetResponse("hash", hash, GetJSONByHash(backend, rows, hash))]
    /\ call' = [call EXCEPT ![c] = DoneCall]
    /\ rows' = Selected(rows)
    /\ UNCHANGED <<hIn, hOut, backend, now, tx>>

Range(q) == {q[i] : i \in 1..Len(q)}

\* GetJSONBatch of the store: WHERE id IN (...); a row whose Scan fails is
\* logged and skipped.  docs is the set of documents the loop appends.
GetJSONBatch(be, tbl, ids) ==
    IF Len(ids) = 0 THEN [err |-> "no IDs provided", docs |-> {}, queried |-> FALSE]
    ELSE IF Len(ids) > BatchLimit
    THEN [err |-> "batch size exceeds limit of 100", docs |-> {}, queried |-> FALSE]
    ELSE IF \E i \in 1..Len(ids) : ~IdAccepted(be, ids[i])
    THEN [err |-> "failed to query batch", docs |-> {}, queried |-> TRUE]
    ELSE [err |-> "none", queried |-> TRUE,
          docs |-> {r \in tbl : r.id \in Range(ids) /\ ~ScanFails(be, r)}]

\* ORDER BY created_at DESC: the orders the rows can come in (rows of one
\* created_at in any order).
ByCreatedDesc(S) ==
    {q \in [1..Cardinality(S) -> S] :
        /\ \A i, j \in 1..Cardinality(S) : i # j => q[i] # q[j]
        /\ \A i, j \in 1..Cardinality(S) : i < j => q[i].created_at >= q[j].created_at}

\* JSONHandler.GetJSONBatch building the 200 response from the documents.
GetBatchResponse(ids, documents) ==
    LET success == Len(documents)
        failure == Len(ids) - success
        foundIDs == {documents[k].id : k \in 1..success}
        missing == Ascending({i \in 1..Len(ids) : ids[i] \notin foundIDs})
    IN  [kind |-> "getbatch", ids |-> ids, err |-> "none", documents |-> documents,
         status |-> 200,
         body |-> [success_count |-> success,
                   failure_count |-> failure,
                   documents |-> documents,
                   failures |-> IF failure > 0
                                THEN [k \in 1..Len(missing) |-> [index |-> missing[k] - 1]]
                                ELSE <<>>]]

GetBatchRejected(ids, err, status, error) ==
    [kind |-> "getbatch", ids |-> ids, err |-> err, documents |-> <<>>,
     status |-> status, body |-> [error |-> error]]

\* GET /json/batch
HandleGetJSONBatch(c, ids) ==
    /\ Arrives(c)
    /\ LET got == GetJSONBatch(backend, rows, ids)
       IN  IF Len(ids) = 0
           THEN resp' = [resp EXCEPT ![c] =
                            GetBatchRejected(ids, "MISSING_IDS", 400, "MISSING_IDS")]
           ELSE IF Len(ids) > BatchLimit
           THEN resp' = [resp EXCEPT ![c] =
                            GetBatchRejected(ids, "TOO_MANY_IDS", 400, "TOO_MANY_IDS")]
           ELSE IF got.err # "none"
           THEN resp' = [resp EXCEPT ![c] =
                            GetBatchRejected(ids, got.err, 500, "BATCH_GET_ERROR")]
           ELSE \E documents \in ByCreatedDesc(got.docs) :
                   resp' = [resp EXCEPT ![c] = GetBatchResponse(ids, documents)]
    /\ call' = [call EXCEPT ![c] = DoneCall]
    /\ rows' = Selected(rows)
    /\ UNCHANGED <<hIn, hOut, backend, now, tx>>

\* Migrate, as NewPostgresStore / NewMySQLStore run it at every start, on a
\* database that has the schema.  PostgresStore: every statement is guarded
\* (IF NOT EXISTS, OR REPLACE, DROP ... IF EXISTS) and succeeds again.
\* MySQLStore: ALTER TABLE ... ADD INDEX idx_json_data is not guarded and
\* fails on the index that exists (and the two statements are sent as one
\* Exec, which the server refuses without multiStatements): Exec returns
\* the error.  No statement touches a row.
MigrateError(be) == IF be = "postgres" THEN "none" ELSE "failed to migrate"

Migrate(c) ==
    /\ Arrives(c)
    /\ resp' = [resp EXCEPT ![c] = [kind |-> "migrate", err |-> MigrateError(backend)]]
    /\ call' = [call EXCEPT ![c] = DoneCall]
    /\ UNCHANGED <<hIn, hOut, backend, rows, now, tx>>

(***************************************************************************)
(* GET /stats, GET /metrics, GET /health: the read-only calls.             *)
(***************************************************************************)
RECURSIVE SumSize(_)
\* SUM(size) over a set of rows.
SumSize(S) ==
    IF S = {} THEN 0
    ELSE LET r == CHOOSE x \in S : TRUE IN r.size + SumSize(S \ {r})

\* GetStats of the store: one SELECT of aggregates over json_documents.
\* MAX(updated_at) of an empty table is NULL, which Scan cannot store into
\* stats.LastUpdated (a time.Time): the call fails on an empty table.
GetStats(be, tbl) ==
    IF tbl = {} THEN [err |-> "failed to get stats", stats |-> [total_documents |-> 0]]
    ELSE [err |-> "none",
          stats |-> [total_documents |-> Cardinality(tbl),
                     total_size |-> SumSize(tbl),
                     unique_hashes |-> Cardinality({r.content_hash : r \in tbl}),
                     last_updated |-> CHOOSE t \in {r.updated_at : r \in tbl} :
                                        \A r \in tbl : r.updated_at <= t]]

Unauthorized(kind) ==
    [kind |-> kind, err |-> "UNAUTHORIZED", status |-> 401,
     body |-> [error |-> "UNAUTHORIZED"]]

\* GET /stats: basic authentication, then GetStats.
Stats(c, hasAuth) ==
    /\ Arrives(c)
    /\ resp' = [resp EXCEPT ![c] =
                   IF ~hasAuth THEN Unauthorized("stats")
                   ELSE LET got == GetStats(backend, rows)
                        IN  IF got.err # "none"
                            THEN [kind |-> "stats", err |-> got.err, status |-> 500,
                                  body |-> [error |-> "STATS_ERROR"]]
                            ELSE [kind |-> "stats", err |-> "none", status |-> 200,
                                  body |-> got.stats]]
    /\ call' = [call EXCEPT ![c] = DoneCall]
    /\ rows' = Selected(rows)
    /\ UNCHANGED <<hIn, hOut, backend, now, tx>>

\* GET /metrics: basic authentication, then GetMetrics, which queries the
\* server's status tables, logs what fails and always returns metrics.
Metrics(c, hasAuth) ==
    /\ Arrives(c)
    /\ resp' = [resp EXCEPT ![c] =
                   IF ~hasAuth THEN Unauthorized("metrics")
                   ELSE [kind |-> "metrics", err |-> "none", status |-> 200,
                         body |-> [timestamp |-> now]]]
    /\ call' = [call EXCEPT ![c] = DoneCall]
    /\ UNCHANGED <<hIn, hOut, backend, rows, now, tx>>

\* s.db.PingContext(ctx): the context the caller passed is the only one; a
\* context that is done makes the call return ctx.Err() whatever the state
\* of the backend, otherwise the backend answers the ping (pong) or not.
PingContext(ctxDone, pong) ==
    IF ctxDone THEN "context canceled" ELSE IF pong THEN "none" ELSE "ping failed"

\* GET /health: store.HealthCheck(c.Request.Context()).  pong and ctxDone
\* are kept in the answer for stating the properties only.
HealthCheck(c, pong, ctxDone) ==
    /\ Arrives(c)
    /\ resp' = [resp EXCEPT ![c] =
                   LET err == PingContext(ctxDone, pong)
                   IN  [kind |-> "health", err |-> err, pong |-> pong, ctxDone |-> ctxDone,
                        status |-> IF err = "none" THEN 200 ELSE 503,
                        body |-> [status |-> IF err = "none" THEN "healthy" ELSE "unhealthy",
                                  database |-> err = "none"]]]
    /\ call' = [call EXCEPT ![c] = DoneCall]
    /\ UNCHANGED <<hIn, hOut, backend, rows, now, tx>>

Next ==
    \/ Tick
    \/ \E c \in Requests :
          \/ \E jsonData \in SinglePayloads : StoreJSON(c, jsonData)
          \/ PostgresInsert(c)
          \/ MySQLInsert(c)
          \/ MySQLGetByHash(c)
          \/ MySQLGetByID(c)
          \/ ContextDone(c)
          \/ \E list \in Batches : StoreJSONBatch(c, list)
          \/ BatchSelect(c)
          \/ BatchGetExisting(c)
          \/ PostgresBatchInsert(c)
          \/ MySQLBatchInsert(c)
          \/ MySQLBatchGetInserted(c)
          \/ BatchCommit(c)
          \/ LockWaitFail(c)
          \/ \E id \in GetIds : GetJSON(c, id)
          \/ \E hash \in GetHashes : HandleGetJSONByHash(c, hash)
          \/ \E ids \in IdLists : HandleGetJSONBatch(c, ids)
          \/ Migrate(c)
          \/ \E hasAuth \in BOOLEAN : Stats(c, hasAuth)
          \/ \E hasAuth \in BOOLEAN : Metrics(c, hasAuth)
          \/ \E pong, ctxDone \in BOOLEAN : HealthCheck(c, pong, ctxDone)

Spec == Init /\ [][Next]_vars

(***************************************************************************)
(* The fingerprint functions of package utils on their own: a pair of      *)
(* payloads is drawn, and either implementation is applied to both.        *)
(***************************************************************************)
HashPayloads ==
    { <<LB, SA, CL, N1, CM, SB, CL, N2, RB>>,                       \* {"a":1,"b":2}
      <<LB, SB, CL, N2, CM, WS, SA, CL, N1, RB>>,                   \* {"b":2, "a":1}
      <<LB, WS, SA, CL, WS, N1, CM, WS, SB, CL, WS, N2, WS, RB>>,   \* { "a": 1, "b": 2 }
      <<LB, SA, CL, N2, CM, SB, CL, N1, RB>>,                       \* {"a":2,"b":1}
      <<LB, SA, CL, LK, N1, CM, N2, RK, RB>>,                       \* {"a":[1,2]}
      <<LB, SA, CL, WS, LK, N1, CM, WS, N2, RK, RB>>,               \* {"a": [1, 2]}
      <<LB, RB>>,                                                   \* {}
      <<LK, N1, CM, N2, RK>>,                                       \* [1,2]
      <<LK, N1, CM, WS, N2, RK>>,                                   \* [1, 2]
      <<LK, N2, CM, N1, RK>>,                                       \* [2,1]
      <<LK, LB, SA, CL, N1, CM, SB, CL, N2, RB, RK>>,               \* [{"a":1,"b":2}]
      <<LK, LB, SB, CL, N2, CM, SA, CL, N1, RB, RK>>,               \* [{"b":2,"a":1}]
      <<N1>>,                                                       \* 1
      <<WS, N1>>,                                                   \*  1
      <<SA>>,                                                       \* "a"
      <<SA, WS>>,                                                   \* "a" and a space
      <<NUL>>,                                                      \* null
      <<>>,                                                         \* no bytes
      <<LB, BAD>>,                                                  \* {x
      <<LB, SA, CL, N1>>,                                           \* {"a":1
      <<LK, N1, CM, RK>> }                                          \* [1,]

InitHash ==
    /\ hIn \in HashPayloads \X HashPayloads
    /\ hOut = <<>>
    /\ backend = "postgres"
    /\ rows = {}
    /\ now = 0
    /\ call = [c \in Requests |-> IdleCall]
    /\ tx = [c \in Requests |-> NoTx]
    /\ resp = [c \in Requests |-> NoResp]

\* CalculateHash (decoding into interface{}) applied to both payloads.
RunCalculateHash ==
    /\ hOut = <<>>
    /\ hOut' = <<"interface", CalculateHash(hIn[1]), CalculateHash(hIn[2])>>
    /\ UNCHANGED <<hIn, backend, rows, now, call, tx, resp>>

\* CalculateHash (decoding into map[string]interface{}) applied to both.
RunCalculateHashMap ==
    /\ hOut = <<>>
    /\ hOut' = <<"map", CalculateHashMap(hIn[1]), CalculateHashMap(hIn[2])>>
    /\ UNCHANGED <<hIn, backend, rows, now, call, tx, resp>>

NextHash == RunCalculateHash \/ RunCalculateHashMap

SpecHash == InitHash /\ [][NextHash]_vars

(***************************************************************************)
(* The two stores side by side: a sequence of calls on the JSONStore       *)
(* interface, each run to its end before the next begins, applied to a     *)
(* PostgresStore and to a MySQLStore that start from empty tables.         *)
(***************************************************************************)
MaxOps == 2

StoreCalls ==
    {[op |-> "StoreJSON", arg |-> p] : p \in SinglePayloads}
    \cup {[op |-> "StoreJSONBatch", arg |-> list] : list \in Batches}
    \cup {[op |-> "GetJSONByID", arg |-> id] : id \in BatchIds}
    \cup {[op |-> "GetJSONByHash", arg |-> h] : h \in GetHashes \ {EmptyHash}}
    \cup {[op |-> "GetJSONBatch", arg |-> ids] : ids \in IdLists}

CallSeqs == SeqsUpTo(StoreCalls, MaxOps) \ {<<>>}

\* uuid.New() in a run of one caller.
SeqFreshId(tbl) ==
    CHOOSE n \in 1..(Cardinality(tbl) + 1) :
        n \notin {r.id : r \in tbl} /\ \A m \in 1..(n - 1) : m \in {r.id : r \in tbl}

\* What a caller sees of a document, identifiers and timestamps aside.
Seen(doc) ==
    [content_hash |-> doc.content_hash, json_data |-> doc.json_data,
     size |-> doc.size, metadata |-> doc.metadata]

SeenAll(docs) == [k \in 1..Len(docs) |-> Seen(docs[k])]

\* What a call returns to the sequence: the table it leaves, its error and
\* the document it gives back.
SeqStored(tbl, err, doc) ==
    [tbl |-> tbl, err |-> err, docs |-> IF err = "none" THEN <<Seen(doc)>> ELSE <<>>]

\* The table after MySQL's INSERT ... ON DUPLICATE KEY UPDATE.
SeqUpserted(tbl, old, row, ts) ==
    IF old = NoDoc THEN tbl \cup {row} ELSE (tbl \ {old}) \cup {Touch(old, ts)}

\* MySQLStore.StoreJSON after its upsert: RowsAffected 0 (the row was not
\* changed) re-reads by hash, anything else by the id it generated.
SeqReread(be, after, hash, id, unchanged) ==
    IF unchanged
    THEN SeqStored(after, GetJSONByHash(be, after, hash).err,
                   GetJSONByHash(be, after, hash).doc)
    ELSE SeqStored(after, GetJSONByID(be, after, id).err, GetJSONByID(be, after, id).doc)

\* StoreJSON from its probe on: existing is what GetJSONByHash returned, old
\* the row of that fingerprint, row the row the INSERT would add.
SeqStoreProbed(be, tbl, ts, hash, existing, old, row) ==
    IF existing.err = "none" THEN SeqStored(tbl, "none", existing.doc)
    ELSE IF be = "postgres"
    THEN IF UniqueContentHash(tbl, hash)
         THEN SeqStored(tbl, "failed to store JSON", NoDoc)
         ELSE SeqStored(tbl \cup {row}, "none", row)
    ELSE SeqReread(be, SeqUpserted(tbl, old, row, ts), hash, row.id,
                   old # NoDoc /\ old.updated_at = ts)

SeqStoreHashed(be, tbl, ts, hash, jsonData) ==
    SeqStoreProbed(be, tbl, ts, hash, GetJSONByHash(be, tbl, hash),
                   SelectByHash(tbl, hash), NewRow(SeqFreshId(tbl), hash, jsonData, ts))

\* StoreJSON run alone on table tbl at time ts: the table it leaves and
\* what it returns.
SeqStoreJSON(be, tbl, ts, jsonData) ==
    IF InvalidJSON(jsonData) THEN SeqStored(tbl, "invalid JSON data", NoDoc)
    ELSE SeqStoreHashed(be, tbl, ts, calculateHash(jsonData), jsonData)

\* One pass of the loop of StoreJSONBatch from its SELECT on: found is the
\* row the SELECT inside the transaction returned, got what GetJSONByID
\* outside it returned for that row, inserted what it returned for row.
SeqBatchFound(be, visible, hash, acc, found, got, row, inserted) ==
    IF found # NoDoc /\ got.err = "none"
    THEN [acc EXCEPT !.results = Append(@, got.doc)]
    ELSE IF acc.failed THEN acc
    ELSE IF UniqueContentHash(visible, hash)
    THEN [acc EXCEPT !.failed = (be = "postgres")]
    ELSE IF be = "postgres"
    THEN [acc EXCEPT !.ins = @ \cup {row}, !.results = Append(@, row)]
    ELSE IF inserted.err = "none"
    THEN [acc EXCEPT !.ins = @ \cup {row}, !.results = Append(@, inserted.doc)]
    ELSE [acc EXCEPT !.ins = @ \cup {row}]

SeqBatchSelected(be, tbl, hash, acc, found, row) ==
    SeqBatchFound(be, tbl \cup acc.ins, hash, acc, found,
                  GetJSONByID(be, tbl, found.id), row, GetJSONByID(be, tbl, row.id))

SeqBatchHashed(be, tbl, ts, hash, jsonData, acc) ==
    SeqBatchSelected(be, tbl, hash, acc,
                     IF acc.failed THEN NoDoc ELSE SelectByHash(tbl \cup acc.ins, hash),
                     NewRow(SeqFreshId(tbl \cup acc.ins), hash, jsonData, ts))

\* One pass of the loop of StoreJSONBatch, run alone: acc holds the rows the
\* transaction inserted, the results and whether the transaction is aborted.
SeqBatchItem(be, tbl, ts, jsonData, acc) ==
    IF ~Valid(jsonData) THEN acc
    ELSE SeqBatchHashed(be, tbl, ts, calculateHash(jsonData), jsonData, acc)

RECURSIVE SeqBatchLoop(_, _, _, _, _, _)
\* for i, jsonData := range jsonDataList; next is acc after the pass for
\* list[i].
SeqBatchLoop(be, tbl, ts, list, i, acc) ==
    IF i > Len(list) THEN acc
    ELSE CHOOSE r \in {SeqBatchLoop(be, tbl, ts, list, i + 1, next) :
                          next \in {SeqBatchItem(be, tbl, ts, list[i], acc)}} : TRUE

\* StoreJSONBatch run alone; began tells whether BeginTx was called.
SeqStoreJSONBatch(be, tbl, ts, list) ==
    IF Len(list) = 0
    THEN [tbl |-> tbl, err |-> "no JSON data provided", docs |-> <<>>, began |-> FALSE]
    ELSE IF Len(list) > BatchLimit
    THEN [tbl |-> tbl, err |-> "batch size exceeds limit of 100", docs |-> <<>>,
          began |-> FALSE]
    ELSE LET acc == SeqBatchLoop(be, tbl, ts, list, 1,
                                 [ins |-> {}, results |-> <<>>, failed |-> FALSE])
         IN  IF acc.failed
             THEN [tbl |-> tbl, err |-> "failed to commit transaction: in failed transaction",
                   docs |-> <<>>, began |-> TRUE]
             ELSE [tbl |-> tbl \cup acc.ins, err |-> "none", docs |-> SeenAll(acc.results),
                   began |-> TRUE]

\* One call of the interface; the documents of GetJSONBatch are given in
\* the order of their fingerprints' first store, the order being free.
SeqCall(be, tbl, ts, o) ==
    CASE o.op = "StoreJSON" -> SeqStoreJSON(be, tbl, ts, o.arg)
      [] o.op = "StoreJSONBatch" -> SeqStoreJSONBatch(be, tbl, ts, o.arg)
      [] o.op = "GetJSONByID" ->
            LET got == GetJSONByID(be, tbl, o.arg)
            IN  [tbl |-> tbl, err |-> got.err,
                 docs |-> IF got.err = "none" THEN <<Seen(got.doc)>> ELSE <<>>]
      [] o.op = "GetJSONByHash" ->
            LET got == GetJSONByHash(be, tbl, o.arg)
            IN  [tbl |-> tbl, err |-> got.err,
                 docs |-> IF got.err = "none" THEN <<Seen(got.doc)>> ELSE <<>>]
      [] o.op = "GetJSONBatch" ->
            LET got == GetJSONBatch(be, tbl, o.arg)
                byId == Ascending({r.id : r \in got.docs})
            IN  [tbl |-> tbl, err |-> got.err,
                 docs |-> [k \in 1..Len(byId) |-> Seen(SelectByID(got.docs, byId[k]))]]

\* hIn holds the calls still to make; hOut the table of the PostgresStore,
\* the table of the MySQLStore, and the outcomes each has returned so far.
InitParity ==
    /\ hIn \in CallSeqs
    /\ hOut = <<"parity", {}, {}, <<>>, <<>>>>
    /\ backend = "postgres"
    /\ rows = {}
    /\ now = 0
    /\ call = [c \in Requests |-> IdleCall]
    /\ tx = [c \in Requests |-> NoTx]
    /\ resp = [c \in Requests |-> NoResp]

\* The next call is made on the PostgresStore and on the MySQLStore.
RunBothStores ==
    /\ hIn # <<>>
    /\ LET p == SeqCall("postgres", hOut[2], 0, Head(hIn))
           m == SeqCall("mysql", hOut[3], 0, Head(hIn))
       IN  hOut' = <<"parity", p.tbl, m.tbl,
                     Append(hOut[4], [err |-> p.err, docs |-> p.docs]),
                     Append(hOut[5], [err |-> m.err, docs |-> m.docs])>>
    /\ hIn' = Tail(hIn)
    /\ UNCHANGED <<backend, rows, now, call, tx, resp>>

SpecParity == InitParity /\ [][RunBothStores]_vars

(***************************************************************************)
(* The size checks of StoreJSONBatch and GetJSONBatch: one call of either, *)
(* with a list of hIn.n items, on a table that is empty or holds a row.    *)
(***************************************************************************)
MaxLen == 102

\* A list of n documents, and a list of n ids.
DocList(n) == [i \in 1..n |-> IF i % 2 = 1 THEN PA ELSE PB]
IdList(n) == [i \in 1..n |-> 1 + (i % 2)]

InitLimit ==
    /\ hIn \in {[op |-> o, n |-> n] : o \in {"StoreJSONBatch", "GetJSONBatch"},
                                        n \in 0..MaxLen}
    /\ hOut = <<>>
    /\ backend \in {"postgres", "mysql"}
    /\ rows \in {{}, {NewRow(1, calculateHash(PA), PA, 0)}}
    /\ now = 0
    /\ call = [c \in Requests |-> IdleCall]
    /\ tx = [c \in Requests |-> NoTx]
    /\ resp = [c \in Requests |-> NoResp]

\* hOut: the error returned, whether a transaction was begun or a query
\* sent, and the table the call found.
RunStoreJSONBatch ==
    /\ hOut = <<>>
    /\ hIn.op = "StoreJSONBatch"
    /\ hOut' = <<"limit", SeqStoreJSONBatch(backend, rows, now, DocList(hIn.n)).err,
                 SeqStoreJSONBatch(backend, rows, now, DocList(hIn.n)).began, rows>>
    /\ rows' = SeqStoreJSONBatch(backend, rows, now, DocList(hIn.n)).tbl
    /\ UNCHANGED <<hIn, backend, now, call, tx, resp>>

RunGetJSONBatch ==
    /\ hOut = <<>>
    /\ hIn.op = "GetJSONBatch"
    /\ hOut' = <<"limit", GetJSONBatch(backend, rows, IdList(hIn.n)).err,
                 GetJSONBatch(backend, rows, IdList(hIn.n)).queried, rows>>
    /\ rows' = Selected(rows)
    /\ UNCHANGED <<hIn, backend, now, call, tx, resp>>

NextLimit == RunStoreJSONBatch \/ RunGetJSONBatch

SpecLimit == InitLimit /\ [][NextLimit]_vars

(***************************************************************************)
(* The connection pool of s.db.  hIn concurrent StoreJSONBatch calls, each *)
(* of one item, on a table that holds document PA: the item is PA, which   *)
(* the SELECT of the loop finds, or is not valid JSON and is skipped.      *)
(* hOut counts the calls at each place of StoreJSONBatch:                  *)
(*   begin   in s.db.BeginTx, no connection yet                            *)
(*   loop    transaction open, SELECT found the row, in s.GetJSONByID      *)
(*           asking s.db for a connection                                  *)
(*   getid   transaction open, the query of s.GetJSONByID running on a     *)
(*           second connection                                             *)
(*   commit  transaction open, loop over, at tx.Commit                     *)
(*   done    returned                                                      *)
(***************************************************************************)
MaxOpenConns == 25

MaxCallers == 26

\* Connections checked out of s.db: one per open transaction and one more
\* per running query of s.GetJSONByID.
InUse(p) == p.loop + p.commit + 2 * p.getid

InitPool ==
    /\ hIn \in 1..MaxCallers
    /\ hOut = [begin |-> hIn, loop |-> 0, getid |-> 0, commit |-> 0, done |-> 0]
    /\ backend \in {"postgres", "mysql"}
    /\ rows = {NewRow(1, calculateHash(PA), PA, 0)}
    /\ now = 0
    /\ call = [c \in Requests |-> IdleCall]
    /\ tx = [c \in Requests |-> NoTx]
    /\ resp = [c \in Requests |-> NoResp]

\* s.db.BeginTx(ctx, nil) gets a connection when the pool has one to give,
\* and waits otherwise.  Then the first pass of the loop: json.Valid, and
\* for a valid item the SELECT on tx, which finds the row of PA.
PoolBeginTx(valid) ==
    /\ hOut.begin > 0
    /\ InUse(hOut) < MaxOpenConns
    /\ hOut' = IF valid
               THEN [hOut EXCEPT !.begin = @ - 1, !.loop = @ + 1]
               ELSE [hOut EXCEPT !.begin = @ - 1, !.commit = @ + 1]
    /\ UNCHANGED <<hIn, backend, rows, now, call, tx, resp>>

\* s.GetJSONByID(ctx, existingID): s.db.QueryRowContext gets a connection
\* when the pool has one to give, and waits otherwise.
PoolGetJSONByID ==
    /\ hOut.loop > 0
    /\ InUse(hOut) < MaxOpenConns
    /\ hOut' = [hOut EXCEPT !.loop = @ - 1, !.getid = @ + 1]
    /\ UNCHANGED <<hIn, backend, rows, now, call, tx, resp>>

\* Scan returns and the connection of s.GetJSONByID goes back to the pool;
\* the item was the last of the list.
PoolGetReturns ==
    /\ hOut.getid > 0
    /\ hOut' = [hOut EXCEPT !.getid = @ - 1, !.commit = @ + 1]
    /\ UNCHANGED <<hIn, backend, rows, now, call, tx, resp>>

\* tx.Commit() (or the deferred tx.Rollback()) gives the connection of the
\* transaction back, and StoreJSONBatch returns.
PoolCommit ==
    /\ hOut.commit > 0
    /\ hOut' = [hOut EXCEPT !.commit = @ - 1, !.done = @ + 1]
    /\ UNCHANGED <<hIn, backend, rows, now, call, tx, resp>>

NextPool ==
    \/ \E valid \in BOOLEAN : PoolBeginTx(valid)
    \/ PoolGetJSONByID
    \/ PoolGetReturns
    \/ PoolCommit

SpecPool == InitPool /\ [][NextPool]_vars

\* The backend answers every statement and the Go scheduler runs every
\* goroutine that can run: a step that stays possible is taken.
FairPool == SpecPool /\ WF_vars(NextPool)

(***************************************************************************)
(* The RateLimit(limit) middleware.  hIn is limit, the capacity of the     *)
(* channel limiter; hOut.limiter is the number of values in the channel    *)
(* and hOut.req tells, for each client, where its request is:              *)
(*   arrive   at the select of RateLimit                                   *)
(*   next     inside c.Next(), running the downstream handlers             *)
(*   defer    c.Next() has returned or panicked, the deferred function     *)
(*            of RateLimit has not run yet                                 *)
(*   panic    the panic is on its way up to Recovery                       *)
(*   done     answered                                                     *)
(* admitted and released count, for the request, the sends to and the      *)
(* receives from limiter.                                                  *)
(***************************************************************************)
MaxLimit == 2

MaxClients == 3

Clients == 1..MaxClients

NewReq == [pc |-> "arrive", status |-> 0, aborted |-> FALSE, panicking |-> FALSE,
           admitted |-> 0, released |-> 0]

InitRateLimit ==
    /\ hIn \in 0..MaxLimit
    /\ hOut = [limiter |-> 0, req |-> [r \in Clients |-> NewReq]]
    /\ backend \in {"postgres", "mysql"}
    /\ rows = {}
    /\ now = 0
    /\ call = [c \in Requests |-> IdleCall]
    /\ tx = [c \in Requests |-> NoTx]
    /\ resp = [c \in Requests |-> NoResp]

\* case limiter <- struct{}{}: a send on a channel of capacity limit can
\* proceed when the channel holds fewer than limit values (no goroutine
\* ever waits to receive from limiter).
SendReady_Always(n, limit) == TRUE

SendReady(n, limit) == n < limit

\* defer func() { <-limiter }(): a deferred function runs when the function
\* returns and when it panics.
DeferRuns_OnReturn(panicking) == ~panicking

DeferRuns(panicking) == TRUE

\* select: the send can proceed, the request goes on to c.Next().
RateLimitAdmit(r) ==
    /\ hOut.req[r].pc = "arrive"
    /\ SendReady(hOut.limiter, hIn)
    /\ hOut' = [hOut EXCEPT !.limiter = @ + 1,
                            !.req[r].pc = "next",
                            !.req[r].admitted = @ + 1]
    /\ UNCHANGED <<hIn, backend, rows, now, call, tx, resp>>

\* select, default: c.JSON(429, ...) and c.Abort().
RateLimitReject(r) ==
    /\ hOut.req[r].pc = "arrive"
    /\ ~SendReady(hOut.limiter, hIn)
    /\ hOut' = [hOut EXCEPT !.req[r].pc = "done",
                            !.req[r].status = 429,
                            !.req[r].aborted = TRUE]
    /\ UNCHANGED <<hIn, backend, rows, now, call, tx, resp>>

\* c.Next() returns (the handlers answered status) or one of them panics.
NextReturns(r, status, panics) ==
    /\ hOut.req[r].pc = "next"
    /\ hOut' = [hOut EXCEPT !.req[r].pc = "defer",
                            !.req[r].panicking = panics,
                            !.req[r].status = IF panics THEN 0 ELSE status]
    /\ UNCHANGED <<hIn, backend, rows, now, call, tx, resp>>

\* The function of RateLimit ends: the deferred receive from limiter, then
\* the request is answered or the panic goes on.
RateLimitReturns(r) ==
    /\ hOut.req[r].pc = "defer"
    /\ hOut' = [hOut EXCEPT
                   !.limiter = IF DeferRuns(hOut.req[r].panicking) THEN @ - 1 ELSE @,
                   !.req[r].released = IF DeferRuns(hOut.req[r].panicking)
                                       THEN @ + 1 ELSE @,
                   !.req[r].pc = IF hOut.req[r].panicking THEN "panic" ELSE "done"]
    /\ UNCHANGED <<hIn, backend, rows, now, call, tx, resp>>

\* Recovery: recover(), c.JSON(500, ...) and c.Abort().
Recovery(r) ==
    /\ hOut.req[r].pc = "panic"
    /\ hOut' = [hOut EXCEPT !.req[r].pc = "done",
                            !.req[r].panicking = FALSE,
                            !.req[r].status = 500,
                            !.req[r].aborted = TRUE]
    /\ UNCHANGED <<hIn, backend, rows, now, call, tx, resp>>

\* The client sends its next request.
NextRequest(r) ==
    /\ hOut.req[r].pc = "done"
    /\ hOut' = [hOut EXCEPT !.req[r] = NewReq]
    /\ UNCHANGED <<hIn, backend, rows, now, call, tx, resp>>

NextRateLimit ==
    \E r \in Clients :
        \/ RateLimitAdmit(r)
        \/ RateLimitReject(r)
        \/ \E status \in {200, 404}, panics \in BOOLEAN : NextReturns(r, status, panics)
        \/ RateLimitReturns(r)
        \/ Recovery(r)
        \/ NextRequest(r)

SpecRateLimit == InitRateLimit /\ [][NextRateLimit]_vars

(***************************************************************************)
(* The life of the process: Application.Run on the main goroutine, the     *)
(* goroutine Application.Start launches for Server.Start, and the          *)
(* goroutines net/http runs the handlers on.  hOut holds                   *)
(*   main        where the main goroutine is: "start", "wait" (at <-quit), *)
(*               "signalled", "draining" (inside httpServer.Shutdown),     *)
(*               "close" (before app.Shutdown), "exited", "panicked"       *)
(*   srv         the goroutine of Server.Start: "none", "spawned",         *)
(*               "serving"                                                 *)
(*   httpServer  the field s.httpServer: "nil" or "set"                    *)
(*   deref       the value Server.Shutdown found in s.httpServer           *)
(*   handler     per client: "idle", "store" (inside an operation of the   *)
(*               store), "done"                                            *)
(*   shutdownReturned, shutdownErr   app.server.Shutdown has returned, and *)
(*               with which error                                          *)
(*   storeClosed, busyAtClose   store.Close was called, and the handlers   *)
(*               that were inside a store operation at that moment         *)
(***************************************************************************)
InitApp ==
    /\ hIn = <<>>
    /\ hOut = [main |-> "start", srv |-> "none", httpServer |-> "nil", deref |-> "none",
               handler |-> [h \in Clients |-> "idle"],
               shutdownReturned |-> FALSE, shutdownErr |-> "none",
               storeClosed |-> FALSE, busyAtClose |-> {}]
    /\ backend \in {"postgres", "mysql"}
    /\ rows = {}
    /\ now = 0
    /\ call = [c \in Requests |-> IdleCall]
    /\ tx = [c \in Requests |-> NoTx]
    /\ resp = [c \in Requests |-> NoResp]

\* Application.Start: server.New, go func() { app.server.Start() }(), and
\* Run goes on to waitForShutdown.
AppStart ==
    /\ hOut.main = "start"
    /\ hOut' = [hOut EXCEPT !.main = "wait", !.srv = "spawned"]
    /\ UNCHANGED <<hIn, backend, rows, now, call, tx, resp>>

\* Server.Start on its goroutine: s.httpServer = &http.Server{...}, then
\* ListenAndServe.
ServerStart ==
    /\ hOut.srv = "spawned"
    /\ hOut.main \notin {"exited", "panicked"}
    /\ hOut' = [hOut EXCEPT !.srv = "serving", !.httpServer = "set"]
    /\ UNCHANGED <<hIn, backend, rows, now, call, tx, resp>>

\* waitForShutdown: sig := <-quit.
Signal ==
    /\ hOut.main = "wait"
    /\ hOut' = [hOut EXCEPT !.main = "signalled"]
    /\ UNCHANGED <<hIn, backend, rows, now, call, tx, resp>>

\* What a read of s.httpServer on the main goroutine can find: the write of
\* Server.Start is on another goroutine and nothing orders the two, so
\* after the write the read finds the new value or still nil.
Observed(h) == IF h.httpServer = "nil" THEN {"nil"} ELSE {"set", "nil"}

\* Server.Shutdown: s.httpServer.Shutdown(shutdownCtx).  On a nil
\* *http.Server the call panics (nil pointer dereference) and the process
\* dies; otherwise the listener closes and Shutdown waits for the
\* connections to become idle.
ServerShutdown ==
    /\ hOut.main = "signalled"
    /\ \E seen \in Observed(hOut) :
          hOut' = [hOut EXCEPT !.deref = seen,
                               !.main = IF seen = "nil" THEN "panicked" ELSE "draining"]
    /\ UNCHANGED <<hIn, backend, rows, now, call, tx, resp>>

\* The handlers that are inside a store operation.
Active(h) == {c \in Clients : h.handler[c] = "store"}

\* httpServer.Shutdown returns: nil once no handler is running, or the
\* error of shutdownCtx when its 5 seconds pass first; the handlers that
\* are running then keep running.  waitForShutdown logs the error.
ShutdownReturns ==
    /\ hOut.main = "draining"
    /\ \E expired \in {Active(hOut) # {}} :
          hOut' = [hOut EXCEPT !.main = "close",
                               !.shutdownReturned = TRUE,
                               !.shutdownErr = IF expired
                                               THEN "context deadline exceeded"
                                               ELSE "none"]
    /\ UNCHANGED <<hIn, backend, rows, now, call, tx, resp>>

\* Application.Shutdown: app.store.Close(); Run returns.
AppShutdown ==
    /\ hOut.main = "close"
    /\ hOut' = [hOut EXCEPT !.main = "exited",
                            !.storeClosed = TRUE,
                            !.busyAtClose = Active(hOut)]
    /\ UNCHANGED <<hIn, backend, rows, now, call, tx, resp>>

\* net/http accepts a request while the server listens, and its handler
\* calls the store.
HandlerBegins(h) ==
    /\ hOut.srv = "serving"
    /\ hOut.main \in {"wait", "signalled"}
    /\ hOut.handler[h] = "idle"
    /\ hOut' = [hOut EXCEPT !.handler[h] = "store"]
    /\ UNCHANGED <<hIn, backend, rows, now, call, tx, resp>>

\* The store operation returns and the handler answers.
HandlerEnds(h) ==
    /\ hOut.handler[h] = "store"
    /\ hOut.main \notin {"exited", "panicked"}
    /\ hOut' = [hOut EXCEPT !.handler[h] = "done"]
    /\ UNCHANGED <<hIn, backend, rows, now, call, tx, resp>>

\* The client's connection serves its next request.
HandlerIdle(h) ==
    /\ hOut.handler[h] = "done"
    /\ hOut.main \notin {"exited", "panicked"}
    /\ hOut' = [hOut EXCEPT !.handler[h] = "idle"]
    /\ UNCHANGED <<hIn, backend, rows, now, call, tx, resp>>

NextApp ==
    \/ AppStart
    \/ ServerStart
    \/ Signal
    \/ ServerShutdown
    \/ ShutdownReturns
    \/ AppShutdown
    \/ \E h \in Clients : HandlerBegins(h) \/ HandlerEnds(h) \/ HandlerIdle(h)

SpecApp == InitApp /\ [][NextApp]_vars

(***************************************************************************)
(* Properties.                                                             *)
(***************************************************************************)
Hashes(tbl) == {r.content_hash : r \in tbl}

StoreResps == {c \in Requests : resp[c].kind = "store"}
BatchResps == {c \in Requests : resp[c].kind = "batch"}

\* The result the loop appended for position i of a batch (i not failed).
ResultAt(r, i) == r.results[Cardinality({k \in 1..i : k \notin r.failed})]

\* C1: in every reachable state, on either backend and under any
\* interleaving of StoreJSON and StoreJSONBatch, no two committed rows of
\* json_documents have the same content_hash.
Thm_C1 == \A r1, r2 \in rows : r1.content_hash = r2.content_hash => r1 = r2

\* A StoreJSON lost the race for a fingerprint against a batch that
\* inserted and committed it: the table holds the batch's row only.
Wit_C1 ==
    \E c \in StoreResps, d \in BatchResps :
        /\ resp[c].err = "failed to store JSON"
        /\ resp[d].status = 200
        /\ \E r \in rows : /\ r.content_hash = calculateHash(resp[c].data)
                           /\ r.id \in resp[d].inserted

\* C2: when all requests are StoreJSON calls with byte-identical valid
\* content, however they interleave, exactly one row is persisted and every
\* call returns without error, carrying that row's identifier.
Cex_C2 ==
    (/\ \A c \in Requests : resp[c].kind = "store" /\ resp[c].data = resp[1].data
     /\ Valid(resp[1].data))
    => /\ Cardinality(rows) = 1
       /\ \A c \in Requests : /\ resp[c].err = "none"
                              /\ \A r \in rows : resp[c].doc.id = r.id

\* C3, first call: a StoreJSON of valid content that ran before any other
\* request arrived succeeded, and its document is the table's only row.
FirstStoreSucceeded ==
    (/\ call[1].pc = "done"
     /\ \A d \in Requests \ {1} : call[d].pc = "new"
     /\ resp[1].kind = "store"
     /\ Valid(resp[1].data))
    => resp[1].err = "none" /\ rows = {resp[1].doc}

\* Request d arrives in this step as a StoreJSON of jsonData.
StoreArrives(d, jsonData) ==
    /\ call[d].pc = "new"
    /\ \/ resp'[d].kind = "store" /\ resp'[d].data = jsonData
       \/ call'[d].op = "store" /\ call'[d].data = jsonData

\* C3, second call: a StoreJSON of the content an earlier, returned
\* StoreJSON stored returns at once with the same id, content_hash and
\* created_at, and leaves the table as it was.
SecondStoreSame ==
    \A c \in StoreResps, d \in Requests :
        (/\ resp[c].err = "none"
         /\ StoreArrives(d, resp[c].data))
        => /\ call'[d].pc = "done"
           /\ resp'[d].err = "none"
           /\ resp'[d].doc.id = resp[c].doc.id
           /\ resp'[d].doc.content_hash = resp[c].doc.content_hash
           /\ resp'[d].doc.created_at = resp[c].doc.created_at
           /\ rows' = rows

\* C3: for every valid payload P, two sequential StoreJSON(P) calls both
\* succeed and return the same identifier, fingerprint and created_at, and
\* the second call creates no row.
Cex_C3 == [][FirstStoreSucceeded' /\ SecondStoreSame]_vars

\* C4: for all valid payloads that decode to the same logical value, the
\* fingerprints CalculateHash computes (either implementation) are equal.
Cex_C4 ==
    (/\ hOut # <<>>
     /\ Valid(hIn[1]) /\ Valid(hIn[2])
     /\ Decode(hIn[1]).val = Decode(hIn[2]).val)
    => hOut[2].hash = hOut[3].hash

\* No request is inside StoreJSON, past its validation, with malformed bytes.
NoInvalidPastValidation ==
    \A c \in Requests : call[c].op = "store" => Valid(call[c].data)

\* The step that answers a StoreJSON of malformed bytes reports the
\* invalid-JSON error and leaves the table and every transaction alone.
InvalidStoreRejected ==
    \A c \in Requests :
        (/\ resp[c].kind = "none"
         /\ resp'[c].kind = "store"
         /\ ~Valid(resp'[c].data))
        => /\ resp'[c].err = "invalid JSON data"
           /\ resp'[c].doc = NoDoc
           /\ rows' = rows
           /\ tx' = tx

\* C5: StoreJSON called with bytes that are not well-formed JSON fails with
\* the invalid-document error and creates no row, on both backends: the
\* call returns in the step it arrives, with the table unchanged.
Thm_C5 == [][NoInvalidPastValidation' /\ InvalidStoreRejected]_vars

\* A StoreJSON of malformed bytes was refused while the table held a row
\* and another request was in flight.
Wit_C5 ==
    \E c \in StoreResps :
        /\ ~Valid(resp[c].data)
        /\ resp[c].err = "invalid JSON data"
        /\ rows # {}
        /\ \E d \in Requests : call[d].pc \notin {"new", "done"}

\* C6: a batch store request that contains a malformed item is answered
\* with a batch result (not a whole-request error), the malformed items are
\* per-item failures, and the valid items are stored.
Cex_C6 ==
    \A c \in BatchResps :
        (Len(resp[c].data) \in 1..BatchLimit /\ InvalidAt(resp[c].data) # {})
        => /\ resp[c].status = 200
           /\ InvalidAt(resp[c].data) \subseteq resp[c].failed
           /\ \A i \in 1..Len(resp[c].data) :
                 Valid(resp[c].data[i])
                 => calculateHash(resp[c].data[i]) \in Hashes(rows)

\* C7: in a batch store result, success_count is the number of items that
\* resolved to a document, failure_count the number that did not, they add
\* up to the input length, and failures holds one entry per failed item,
\* its index being the item's (0-based) position in the input.
Cex_C7 ==
    \A c \in BatchResps :
        resp[c].status = 200
        => LET r == resp[c]
               n == Len(r.data)
               bad == Ascending(r.failed)
           IN  /\ r.body.success_count = n - Cardinality(r.failed)
               /\ r.body.failure_count = Cardinality(r.failed)
               /\ r.body.success_count + r.body.failure_count = n
               /\ r.body.failures = [k \in 1..Len(bad) |-> [index |-> bad[k] - 1]]

\* C8: after StoreJSONBatch commits, every valid item whose fingerprint was
\* not stored before the batch is a success, its document is in the results
\* and its row is retrievable by id; no row the batch inserted belongs to an
\* item counted as a failure.
Cex_C8 ==
    \A c \in BatchResps :
        resp[c].status = 200
        => LET r == resp[c]
           IN  /\ \A i \in 1..Len(r.data) :
                     (Valid(r.data[i]) /\ calculateHash(r.data[i]) \notin r.pre)
                     => /\ i \notin r.failed
                        /\ ResultAt(r, i).content_hash = calculateHash(r.data[i])
                        /\ SelectByID(rows, ResultAt(r, i).id) # NoDoc
               /\ \A id \in r.inserted : \E k \in 1..Len(r.results) : r.results[k].id = id

\* The batch failed because the backend could not be reached.
BackendDown(r) ==
    r.err \in {"failed to begin transaction: bad connection",
               "failed to commit transaction: bad connection"}

\* C9: a StoreJSONBatch with two items of one fingerprint, not stored
\* before, commits (the backend being reachable), persists exactly one row
\* for the fingerprint and reports both items as successes with the same
\* document identifier.
Cex_C9 ==
    \A c \in BatchResps :
        LET r == resp[c]
        IN  \A i, j \in 1..Len(r.data) :
               (/\ i < j
                /\ InvalidAt(r.data) = {}
                /\ calculateHash(r.data[i]) = calculateHash(r.data[j])
                /\ calculateHash(r.data[i]) \notin r.pre
                /\ ~BackendDown(r))
               => /\ r.status = 200
                  /\ Cardinality({w \in rows : w.content_hash = calculateHash(r.data[i])}) = 1
                  /\ i \notin r.failed /\ j \notin r.failed
                  /\ ResultAt(r, i).id = ResultAt(r, j).id

\* C10: when, in a batch of documents with pairwise different fingerprints,
\* the INSERT of an item fails for a backend reason, only that item is a
\* failure: the batch still commits and every other document is persisted
\* and reported.
Cex_C10 ==
    \A c \in BatchResps :
        LET r == resp[c]
            n == Len(r.data)
        IN  (/\ r.insfail # {}
             /\ ~BackendDown(r)
             /\ InvalidAt(r.data) = {}
             /\ \A i, j \in 1..n : i # j => calculateHash(r.data[i]) # calculateHash(r.data[j]))
            => /\ r.status = 200
               /\ r.failed = r.insfail
               /\ \A i \in (1..n) \ r.insfail :
                     calculateHash(r.data[i]) \in Hashes(rows)

\* C11, at the step a StoreJSONBatch returns an error: the handler gets no
\* result list, the table is as it was and holds none of the rows the
\* transaction had inserted.
BatchErrorLeavesNothing ==
    \A c \in Requests :
        (/\ resp[c].kind = "none"
         /\ resp'[c].kind = "batch"
         /\ resp'[c].status = 500)
        => /\ resp'[c].results = <<>>
           /\ rows' = rows
           /\ \A r \in rows' : r.id \notin resp'[c].undone

Retrieves(c) ==
    /\ resp[c].kind = "none"
    /\ resp'[c].kind \in {"get", "hash"}
    /\ resp'[c].status # 400

\* The row a retrieval's key names, or NoDoc.
Named(r) ==
    IF r.kind = "get" THEN SelectByID(rows, r.key) ELSE SelectByHash(rows, r.key)

\* C12: GetJSONByID with an identifier no row has (a non-UUID string
\* included) and GetJSONByHash with a fingerprint no row has fail with the
\* not-found error of the store on both backends, and leave the table
\* unchanged.
Cex_C12 ==
    [][\A c \in Requests :
          (Retrieves(c) /\ Named(resp'[c]) = NoDoc)
          => /\ resp'[c].err \in {"document not found with id",
                                  "document not found with hash"}
             /\ rows' = rows]_vars

\* C13: a GetJSONByID with the id, or a GetJSONByHash with the
\* content_hash, of a document a successful StoreJSON returned succeeds and
\* returns the same id, content_hash, content, size, created_at and
\* metadata.
Cex_C13 ==
    [][\A c, d \in Requests :
          (/\ Retrieves(c)
           /\ resp[d].kind = "store" /\ resp[d].err = "none"
           /\ resp'[c].key = (IF resp'[c].kind = "get" THEN resp[d].doc.id
                                                      ELSE resp[d].doc.content_hash))
          => /\ resp'[c].err = "none"
             /\ \A f \in {"id", "content_hash", "json_data", "size", "created_at",
                           "metadata"} : resp'[c].doc[f] = resp[d].doc[f]]_vars

\* C14: in a batch retrieval result the failures are exactly the positions
\* whose id matches no row, failure_count is the number of failures, and
\* success_count + failure_count is the number of requested ids.
Cex_C14 ==
    [][\A c \in Requests :
          (/\ resp[c].kind = "none"
           /\ resp'[c].kind = "getbatch"
           /\ resp'[c].status = 200)
          => LET ids == resp'[c].ids
                 b == resp'[c].body
             IN  /\ {b.failures[k].index + 1 : k \in 1..Len(b.failures)}
                       = {i \in 1..Len(ids) : SelectByID(rows, ids[i]) = NoDoc}
                 /\ b.failure_count = Len(b.failures)
                 /\ b.success_count + b.failure_count = Len(ids)]_vars

\* C15: write-once.  Every row of the table is still there after any step,
\* with the id, content_hash, json_data, size and created_at it had.
Thm_C15 ==
    [][\A r \in rows : \E w \in rows' :
          \A f \in {"id", "content_hash", "json_data", "size", "created_at"} :
             w[f] = r[f]]_vars

\* A row was touched after its creation (ON DUPLICATE KEY UPDATE on MySQL):
\* its updated_at moved while the row stayed what it was.
Wit_C15 ==
    \E r \in rows :
        /\ r.updated_at > r.created_at
        /\ r.content_hash = calculateHash(PA)
        /\ r.json_data = JsonColumn(PA)
        /\ r.size = ByteLen(PA)

\* Request c, a StoreJSON past its validation, takes this step.
StoreSteps(c) ==
    /\ call'[c] # call[c]
    /\ \/ call[c].op = "store"
       \/ call[c].pc = "new" /\ resp'[c].kind = "store" /\ Valid(resp'[c].data)

\* The payload of the StoreJSON that takes this step.
StoreData(c) == IF call[c].op = "store" THEN call[c].data ELSE resp'[c].data

\* C16: a StoreJSON whose fingerprint is already stored is a no-op: no
\* step of it changes the table (updated_at included), and it returns the
\* row that was there.
Cex_C16 ==
    [][\A c \in Requests :
          (StoreSteps(c) /\ SelectByHash(rows, calculateHash(StoreData(c))) # NoDoc)
          => /\ rows' = rows
             /\ resp'[c].kind = "store"
                => /\ resp'[c].err = "none"
                   /\ resp'[c].doc = SelectByHash(rows, calculateHash(StoreData(c)))]_vars

\* C17: the document a StoreJSON created (it inserted the row, no row had
\* the fingerprint) has an id no earlier row had, created_at equal to
\* updated_at, and size equal to the byte length of the supplied content.
Cex_C17 ==
    [][/\ \A w \in rows' :
             w.content_hash \notin Hashes(rows) => w.id \notin {r.id : r \in rows}
       /\ \A c \in Requests :
             (resp[c].kind = "none" /\ resp'[c].kind = "store" /\ resp'[c].created)
             => /\ resp'[c].doc.created_at = resp'[c].doc.updated_at
                /\ resp'[c].doc.size = ByteLen(resp'[c].data)]_vars

\* C18: Migrate invoked again on a database where it already succeeded
\* succeeds, on both backends, and leaves every row as it was.
Cex_C18 ==
    [][\A c \in Requests :
          (resp[c].kind = "none" /\ resp'[c].kind = "migrate")
          => resp'[c].err = "none" /\ rows' = rows]_vars

\* C20: is_new of a store response, single or batch, is true exactly when
\* the call created the document it returns.
Cex_C20 ==
    /\ \A c \in StoreResps :
          resp[c].err = "none" => resp[c].body.is_new = resp[c].created
    /\ \A c \in BatchResps :
          resp[c].status = 200
          => \A k \in 1..Len(resp[c].results) :
                resp[c].body.results[k].is_new = (resp[c].results[k].id \in resp[c].inserted)

\* C19: backend parity.  For every sequence of StoreJSON, StoreJSONBatch,
\* GetJSONByID, GetJSONByHash and GetJSONBatch calls, the PostgresStore and
\* the MySQLStore started from empty tables return the same outcomes: the
\* same error or success, and the same documents, identifiers and
\* timestamps aside.
Cex_C19 == Len(hOut) = 5 => hOut[4] = hOut[5]

\* Request c takes this step as a StoreJSON of a payload in S: it arrives,
\* or it goes on from where an earlier step left it.
StoreOf(c, S) ==
    /\ call'[c] # call[c]
    /\ \/ call[c].op = "store" /\ call[c].data \in S
       \/ /\ call[c].pc = "new"
          /\ \/ resp'[c].kind = "store" /\ resp'[c].data \in S
             \/ call'[c].op = "store" /\ call'[c].data \in S

\* C21: StoreJSON applied to an empty byte sequence or to the JSON literal
\* null fails with the invalid-document error and creates no row: the call
\* returns at its validation, and no step of it changes the table.
Cex_C21 ==
    [][\A c \in Requests :
          StoreOf(c, {PE, PN})
          => /\ rows' = rows
             /\ resp'[c].kind = "store"
             /\ resp'[c].err = "invalid JSON data"]_vars

\* C22: CalculateHash (either implementation) applied to bytes that are not
\* well-formed JSON reports a failure, and does not return the fingerprint
\* of the raw bytes.
Cex_C22 ==
    hOut # <<>>
    => \A k \in 1..2 :
          ~Valid(hIn[k])
          => /\ hOut[k + 1].err
             /\ hOut[k + 1].hash # Sha256Hex(hIn[k])

\* Request c is answered in this step as a StoreJSON that returned an error.
StoreFails(c) ==
    /\ resp[c].kind = "none"
    /\ resp'[c].kind = "store"
    /\ resp'[c].err # "none"

\* C23: whenever StoreJSON returns an error (invalid input, backend failure,
\* or the context done at any point of the call), the call has neither
\* added a row nor modified one: no earlier statement of it changed the
\* table, and the step that returns the error does not either.
Cex_C23 ==
    [][\A c \in Requests : StoreFails(c) => (~call[c].wrote /\ rows' = rows)]_vars

\* C24: a retrieval by id or by hash is answered NOT_FOUND only when the
\* store found no matching row; when the lookup failed for another reason
\* (the query or the decoding of the row failed) the answer is not
\* NOT_FOUND.
Cex_C24 ==
    [][\A c \in Requests :
          (Retrieves(c) /\ resp'[c].body = [error |-> "NOT_FOUND"])
          => /\ resp'[c].err \in {"document not found with id",
                                  "document not found with hash"}
             /\ Named(resp'[c]) = NoDoc]_vars

\* The kinds of the answers to the read-only calls.
ReadKinds == {"get", "hash", "getbatch", "stats", "metrics", "health"}

\* C25: GetStats, GetMetrics, HealthCheck, GetJSONByID, GetJSONByHash and
\* GetJSONBatch are read-only.  The step that serves one of them leaves
\* every row and every transaction as it was, and, whether the call failed
\* or not, it leaves nothing behind but its answer: the other requests, the
\* clock and the backend are untouched and the caller is done, so that
\* every later store or get runs from the state it would have run from.
Thm_C25 ==
    [][\A c \in Requests :
          (resp[c].kind = "none" /\ resp'[c].kind \in ReadKinds)
          => /\ rows' = rows
             /\ tx' = tx /\ now' = now /\ backend' = backend
             /\ call'[c] = DoneCall
             /\ \A d \in Requests \ {c} : call'[d] = call[d] /\ resp'[d] = resp[d]]_vars

\* GetStats failed (the table was empty), and a StoreJSON that had not
\* returned yet went on to insert and return its document.
Wit_C25 ==
    \E c, d \in Requests :
        /\ resp[c].kind = "stats" /\ resp[c].status = 500
        /\ resp[d].kind = "store" /\ resp[d].err = "none"
        /\ rows = {resp[d].doc}

\* C26: StoreJSONBatch and GetJSONBatch called with an empty list or with
\* more than 100 items return an error without beginning a transaction or
\* sending a query, and leave the table unchanged; a list of 1 to 100 items
\* passes the size checks.
Thm_C26 ==
    hOut # <<>>
    => /\ (hIn.n = 0 \/ hIn.n > 100)
          => /\ hOut[2] \in {"no JSON data provided", "no IDs provided",
                             "batch size exceeds limit of 100"}
             /\ ~hOut[3]
             /\ rows = hOut[4]
       /\ hIn.n \in 1..100
          => /\ hOut[2] \notin {"no JSON data provided", "no IDs provided",
                                "batch size exceeds limit of 100"}
             /\ hOut[3]

\* A StoreJSONBatch of 101 documents was refused on a table that holds a row.
Wit_C26 ==
    /\ hOut # <<>>
    /\ hIn = [op |-> "StoreJSONBatch", n |-> 101]
    /\ hOut[2] = "batch size exceeds limit of 100"
    /\ rows # {}

\* Request c runs the INSERT ... ON DUPLICATE KEY UPDATE of
\* MySQLStore.StoreJSON in this step, and the fingerprint is in the table.
UpsertHitsExisting(c) ==
    /\ backend = "mysql"
    /\ call[c].op = "store" /\ call[c].pc = "insert"
    /\ call'[c].pc \in {"gethash", "getid"}
    /\ SelectByHash(rows, calculateHash(call[c].data)) # NoDoc

\* Request c is answered in this step by the lookup that follows the upsert.
LookupReturns(c) ==
    /\ call[c].pc \in {"gethash", "getid"}
    /\ resp'[c].kind = "store"
    /\ resp'[c].err # "failed to get JSON: context deadline exceeded"

\* C27: in MySQLStore.StoreJSON, whenever the upsert hits an existing
\* fingerprint, whatever the affected-row count (0, or 2 when updated_at
\* changed), the call goes on to look the document up by its fingerprint,
\* never by the unused id it generated, and returns the existing document.
Cex_C27 ==
    [][\A c \in Requests :
          /\ UpsertHitsExisting(c) => call'[c].pc = "gethash"
          /\ (LookupReturns(c) /\ call[c].id \notin {r.id : r \in rows})
             => /\ resp'[c].err = "none"
                /\ resp'[c].doc = SelectByHash(rows, calculateHash(call[c].data))]_vars

\* C28: the outcome of HealthCheck does not depend on the deadline or
\* cancellation state of the context the caller supplied: the check
\* succeeds exactly when the backend answers the probe.
Cex_C28 ==
    \A c \in Requests :
        resp[c].kind = "health" => ((resp[c].err = "none") <=> resp[c].pong)

\* C29: when the backend keeps responding, every StoreJSONBatch call
\* eventually returns, for any number of concurrent callers sharing the
\* bounded connection pool.
Cex_C29 == <>(hOut.done = hIn)

\* The step in which GetJSONBatch answers request c with documents.
GetBatchAnswers(c) ==
    /\ resp[c].kind # "getbatch"
    /\ resp'[c].kind = "getbatch"
    /\ resp'[c].err = "none"

\* C30: GetJSONBatch returns exactly the persisted documents whose id
\* occurs in the request list, each document once, so never more documents
\* than there are distinct requested ids.
Cex_C30 ==
    [][\A c \in Requests :
          GetBatchAnswers(c) =>
              LET documents == resp'[c].documents
                  ids == Range(resp'[c].ids)
              IN  /\ {documents[k].id : k \in 1..Len(documents)}
                         = {r.id : r \in {p \in rows : p.id \in ids}}
                  /\ \A j, k \in 1..Len(documents) :
                         documents[j].id = documents[k].id => j = k
                  /\ Len(documents) <= Cardinality(ids)]_vars

\* The step in which GetStats answers request c with statistics.
StatsAnswers(c) ==
    /\ resp[c].kind # "stats"
    /\ resp'[c].kind = "stats"
    /\ resp'[c].err = "none"

\* C31: whenever the statistics are reported, total_documents equals
\* unique_hashes and total_size is the sum of the sizes of the persisted
\* rows.
Thm_C31 ==
    [][\A c \in Requests :
          StatsAnswers(c) =>
              /\ resp'[c].body.total_documents = resp'[c].body.unique_hashes
              /\ resp'[c].body.total_documents = Cardinality(rows)
              /\ resp'[c].body.total_size = SumSize(rows)]_vars

\* Statistics were reported of a table that holds two documents.
Wit_C31 ==
    \E c \in Requests :
        /\ resp[c].kind = "stats"
        /\ resp[c].err = "none"
        /\ resp[c].body.total_documents = 2
        /\ resp[c].body.total_size > 0

\* The requests that are past the limiter and inside the downstream handlers.
InFlight(h) == {r \in Clients : h.req[r].pc = "next"}

\* C32: with RateLimit(limit), under any interleaving, the number of
\* requests inside the downstream handlers never exceeds limit, and a
\* request that arrives when limit requests are in flight is answered 429
\* and aborted without running the downstream handlers.
Thm_C32 ==
    [][/\ Cardinality(InFlight(hOut')) <= hIn
       /\ \A r \in Clients :
             (/\ hOut.req[r].pc = "arrive"
              /\ hOut'.req[r] # hOut.req[r]
              /\ Cardinality(InFlight(hOut)) = hIn)
             => (/\ hOut'.req[r].pc = "done"
                 /\ hOut'.req[r].status = 429
                 /\ hOut'.req[r].aborted
                 /\ hOut'.req[r].admitted = 0)]_vars

\* With limit 2, two requests are inside the handlers and a third was
\* answered 429.
Wit_C32 ==
    /\ hIn = 2
    /\ Cardinality(InFlight(hOut)) = 2
    /\ \E r \in Clients : hOut.req[r].pc = "done" /\ hOut.req[r].status = 429

\* The requests that hold a slot of limiter.
Holding(h) == {r \in Clients : h.req[r].admitted > h.req[r].released}

\* C33: RateLimit never leaks or over-releases slots: an admitted request
\* releases exactly one slot when its handler chain has returned or
\* panicked, a rejected request none, and the channel holds one value per
\* admitted request that has not released yet, so that it is empty once all
\* requests have finished.
Thm_C33 ==
    /\ hOut.limiter = Cardinality(Holding(hOut))
    /\ \A r \in Clients :
          /\ hOut.req[r].released <= hOut.req[r].admitted
          /\ hOut.req[r].admitted <= 1
          /\ hOut.req[r].pc \in {"panic", "done"}
                => hOut.req[r].released = hOut.req[r].admitted
          /\ hOut.req[r].status = 429 => hOut.req[r].released = 0
    /\ (\A r \in Clients : hOut.req[r].pc = "done") => hOut.limiter = 0

\* All requests have finished: one was rejected, one panicked and one
\* returned, and the limiter is empty.
Wit_C33 ==
    /\ hOut.limiter = 0
    /\ \A r \in Clients : hOut.req[r].pc = "done"
    /\ \E r \in Clients : hOut.req[r].status = 429
    /\ \E r \in Clients : hOut.req[r].status = 500 /\ hOut.req[r].released = 1
    /\ \E r \in Clients : hOut.req[r].status = 200 /\ hOut.req[r].released = 1

\* C34: on a shutdown signal the store is closed only after the shutdown
\* of the HTTP server has returned, and store.Close is never called while a
\* request handler is still executing a store operation.
Cex_C34 ==
    hOut.storeClosed => (hOut.shutdownReturned /\ hOut.busyAtClose = {})

\* C35: in every interleaving of the goroutine launched by
\* Application.Start with the signal path of waitForShutdown, httpServer is
\* set when Server.Shutdown dereferences it.
Cex_C35 == hOut.deref # "nil"
====
